---- MODULE Spec2Model ----
(***************************************************************************)
(* Model of the two notebook helper modules of adventure-works-sales-      *)
(* analysis: src/plot.py (chart functions and the monthly insight text)    *)
(* and src/db.py (the module-level SQLAlchemy engine and read_sql).        *)
(*                                                                         *)
(* A table is a record [cols, rows]: the set of column names and the       *)
(* sequence of rows, each row a function from column name to cell.  The    *)
(* row index is the default RangeIndex of a frame returned by read_sql,    *)
(* so a row label identifies exactly one row.  Cells are records:          *)
(*   [kind |-> "text", y, m]  the text "YYYY-MM-01" of an object column    *)
(*   [kind |-> "ts", ord]     a Timestamp, ord = months since year 0       *)
(*   [kind |-> "int", n]      a number                                     *)
(*   [kind |-> "str", of]     the result of astype(str) on a non-text cell *)
(*   [kind |-> "ym", y, m]    the text "YYYY-MM" produced by strftime      *)
(***************************************************************************)
EXTENDS Integers, Sequences, FiniteSets, TLC

VARIABLES
    df,        \* the caller's table, passed to the chart functions
    call,      \* the call made: function name and arguments
    outcome,   \* "none" before the call, then "ok" or the exception raised
    fig,       \* what matplotlib was asked to do: steps, data, labels
    shown,     \* the Markdown summary handed to display(), or NoSummary
    environ,   \* os.environ restricted to SQL_SERVER and SQL_DATABASE
    dotenv,    \* the contents of the local .env file
    ENGINE,    \* the module-level engine of db.py, NoEngine before import
    created,   \* the engines create_engine() has returned so far
    used,      \* the engines pd.read_sql was handed, in call order
    loadEnv    \* os.environ as it was when db.py was imported

plotVars == <<df, call, outcome, fig, shown>>
dbVars == <<environ, dotenv, ENGINE, created, used, loadEnv>>
vars == <<df, call, outcome, fig, shown, environ, dotenv, ENGINE, created, used, loadEnv>>

----------------------------------------------------------------------------
(* Bounds and input domains *)

MaxRows == 3
MaxReads == 2

None == "<None>"

Dates == {[kind |-> "text", y |-> 2023, m |-> 11],
          [kind |-> "text", y |-> 2023, m |-> 12],
          [kind |-> "text", y |-> 2024, m |-> 1]}

Values == {[kind |-> "int", n |-> 90], [kind |-> "int", n |-> 200]}

Columns == {"MonthStart", "TotalSales"}

RowSet == {[c \in Columns |-> IF c = "MonthStart" THEN dv[1] ELSE dv[2]] :
              dv \in Dates \X Values}

Tables == {[cols |-> Columns, rows |-> r] :
              r \in UNION {[1..n -> RowSet] : n \in 0..MaxRows}}

CategoryNames == {"MonthStart", "Nope"}
NumberNames == {"TotalSales", "Nope"}
SortNames == {None, "MonthStart", "TotalSales", "Nope"}
LabelArgs == {None, "Custom"}
YColsArgs == {<<>>, <<"TotalSales">>, <<"TotalSales", "TotalSales">>,
              <<"TotalSales", "Nope">>}
YColLabelsArgs == {[given |-> FALSE, v |-> <<>>], [given |-> TRUE, v |-> <<>>],
                   [given |-> TRUE, v |-> <<"Online">>],
                   [given |-> TRUE, v |-> <<"Online", "Store">>]}

----------------------------------------------------------------------------
(* pandas helpers *)

\* pd.to_datetime on one cell: text is parsed, a Timestamp is kept.
to_datetime(c) ==
    IF c.kind = "text" THEN [kind |-> "ts", ord |-> c.y * 12 + (c.m - 1)]
    ELSE c

\* Timestamp.strftime("%Y-%m") after pd.to_datetime(v)
_fmt_month(v) ==
    LET t == to_datetime(v)
    IN [kind |-> "ym", y |-> t.ord \div 12, m |-> (t.ord % 12) + 1]

\* float(cell) of a numeric cell
float(c) == c.n

\* Series.astype(str) on one cell
astype_str(c) == IF c.kind = "text" THEN c ELSE [kind |-> "str", of |-> c]

\* the order sort_values compares cells by
SortKey(c) ==
    CASE c.kind = "text" -> c.y * 12 + (c.m - 1)
      [] c.kind = "ts" -> c.ord
      [] c.kind = "int" -> c.n

HasColumn(t, c) == c \in t.cols

\* d[c] as a sequence of cells (the caller has checked HasColumn)
Column(t, c) == [i \in 1..Len(t.rows) |-> t.rows[i][c]]

Perms(n) == {p \in [1..n -> 1..n] : \A i, j \in 1..n : p[i] = p[j] => i = j}

\* DataFrame.sort_values(c, ascending=asc): the default quicksort promises no
\* order among equal keys, so every ordered permutation is a possible result.
sort_values(t, c, asc) ==
    LET n == Len(t.rows)
        Ordered(p) == \A i \in 1..n : \A j \in 1..n :
            i < j => IF asc THEN SortKey(t.rows[p[i]][c]) <= SortKey(t.rows[p[j]][c])
                            ELSE SortKey(t.rows[p[i]][c]) >= SortKey(t.rows[p[j]][c])
    IN {[cols |-> t.cols, rows |-> [i \in 1..n |-> t.rows[p[i]]]] :
            p \in {q \in Perms(n) : Ordered(q)}}

\* the label passed on as given, with no fallback
OrFirst(a, b) == a

\* a or b, for an optional string a
Or(a, b) == IF a = None \/ a = "" THEN b ELSE a

\* d bound to the caller's frame itself
copy_alias == "caller"

\* The objects a call works on: the caller's frame and the frame df.copy()
\* allocates.  copy names the object the local variable d refers to.
copy == "local"

Heap(t) == [caller |-> t, local |-> t]

\* d[c] = pd.to_datetime(d[c]) on the object ref of heap h
SetDatetime(h, ref, c) ==
    [h EXCEPT ![ref] = [cols |-> @.cols,
                        rows |-> [i \in 1..Len(@.rows) |->
                                     [@.rows[i] EXCEPT ![c] = to_datetime(@)]]]]

----------------------------------------------------------------------------
(* matplotlib state *)

NoFig == [steps |-> <<>>, cats |-> <<>>, vals |-> <<>>, series |-> <<>>,
          inverted |-> FALSE, xlabel |-> "", ylabel |-> ""]

NoCall == [fn |-> "none"]

NoSummary == [kind |-> "none"]

NoEngine == [kind |-> "none"]

Idle == call = NoCall

\* the last row taken for the peak
idxmax_last(t, c) == Len(t.rows)

\* Series.idxmax() / idxmin(): the label of the first row holding the extreme
idxmax(t, c) ==
    CHOOSE i \in 1..Len(t.rows) :
        /\ \A j \in 1..Len(t.rows) : SortKey(t.rows[j][c]) <= SortKey(t.rows[i][c])
        /\ \A j \in 1..(i - 1) : SortKey(t.rows[j][c]) < SortKey(t.rows[i][c])

idxmin(t, c) ==
    CHOOSE i \in 1..Len(t.rows) :
        /\ \A j \in 1..Len(t.rows) : SortKey(t.rows[j][c]) >= SortKey(t.rows[i][c])
        /\ \A j \in 1..(i - 1) : SortKey(t.rows[j][c]) > SortKey(t.rows[i][c])

\* d.loc[label] under the RangeIndex
loc(t, label) == t.rows[label]

----------------------------------------------------------------------------
(* plot.py: each operator below is the body of one function after d has   *)
(* been prepared, returning the exception (or "ok") and the figure left.  *)

Started == [NoFig EXCEPT !.steps = <<"figure">>]

BarVerticalDraw(d, x, y, xlabel, ylabel) ==
    IF ~HasColumn(d, x) \/ ~HasColumn(d, y)
    THEN [outcome |-> "KeyError", fig |-> Started]
    ELSE [outcome |-> "ok",
          fig |-> [steps |-> <<"figure", "bar", "show">>,
                   cats |-> [i \in 1..Len(d.rows) |-> astype_str(d.rows[i][x])],
                   vals |-> Column(d, y),
                   series |-> <<>>,
                   inverted |-> FALSE,
                   xlabel |-> Or(xlabel, x),
                   ylabel |-> Or(ylabel, y)]]

bar_vertical(x, y, xlabel, ylabel, sort_by, ascending) ==
    /\ Idle
    /\ call' = [fn |-> "bar_vertical", x |-> x, y |-> y, xlabel |-> xlabel,
                ylabel |-> ylabel, sort_by |-> sort_by, ascending |-> ascending]
    /\ LET h == Heap(df)
           sorting == sort_by # None /\ sort_by # ""
       IN /\ df' = h["caller"]
          /\ shown' = shown
          /\ IF sorting /\ ~HasColumn(h[copy], sort_by)
             THEN outcome' = "KeyError" /\ fig' = NoFig
             ELSE \E d \in (IF sorting THEN sort_values(h[copy], sort_by, ascending)
                                       ELSE {h[copy]}) :
                     LET r == BarVerticalDraw(d, x, y, xlabel, ylabel)
                     IN outcome' = r.outcome /\ fig' = r.fig
    /\ UNCHANGED dbVars

\* the flag passed on unnegated
BarHAscendingSame(sort_desc) == sort_desc

\* ascending=not sort_desc
BarHAscending(sort_desc) == ~sort_desc

BarHorizontalDraw(d, x, y, xlabel, ylabel) ==
    IF ~HasColumn(d, y)
    THEN [outcome |-> "KeyError", fig |-> Started]
    ELSE [outcome |-> "ok",
          fig |-> [steps |-> <<"figure", "barh", "invert_yaxis", "show">>,
                   cats |-> [i \in 1..Len(d.rows) |-> astype_str(d.rows[i][y])],
                   vals |-> Column(d, x),
                   series |-> <<>>,
                   inverted |-> TRUE,
                   xlabel |-> Or(xlabel, x),
                   ylabel |-> Or(ylabel, y)]]

bar_horizontal(x, y, xlabel, ylabel, sort_desc) ==
    /\ Idle
    /\ call' = [fn |-> "bar_horizontal", x |-> x, y |-> y, xlabel |-> xlabel,
                ylabel |-> ylabel, sort_desc |-> sort_desc]
    /\ LET h == Heap(df)
       IN /\ df' = h["caller"]
          /\ shown' = shown
          /\ IF ~HasColumn(h[copy], x)
             THEN outcome' = "KeyError" /\ fig' = NoFig
             ELSE \E d \in sort_values(h[copy], x, BarHAscending(sort_desc)) :
                     LET r == BarHorizontalDraw(d, x, y, xlabel, ylabel)
                     IN outcome' = r.outcome /\ fig' = r.fig
    /\ UNCHANGED dbVars

\* a keyword argument left out takes the default of the signature
Default(arg, dflt) == IF arg = None THEN dflt ELSE arg

LinePlotDraw(d, date_col, value_col, xlabel, ylabel) ==
    IF ~HasColumn(d, value_col)
    THEN [outcome |-> "KeyError", fig |-> Started]
    ELSE [outcome |-> "ok",
          fig |-> [steps |-> <<"figure", "plot", "show">>,
                   cats |-> Column(d, date_col),
                   vals |-> Column(d, value_col),
                   series |-> <<>>,
                   inverted |-> FALSE,
                   xlabel |-> Default(xlabel, "Month"),
                   ylabel |-> Default(ylabel, "Value")]]

\* the frame plotted in the order it came in
LinePlotUnsorted(d, date_col) == {d}

\* d = d.sort_values(date_col)
LinePlotSorted(d, date_col) == sort_values(d, date_col, TRUE)

line_plot_monthly(date_col, value_col, xlabel, ylabel) ==
    /\ Idle
    /\ call' = [fn |-> "line_plot_monthly", date_col |-> date_col,
                value_col |-> value_col, xlabel |-> xlabel, ylabel |-> ylabel]
    /\ shown' = shown
    /\ IF ~HasColumn(Heap(df)[copy], date_col)
       THEN outcome' = "KeyError" /\ fig' = NoFig /\ df' = Heap(df)["caller"]
       ELSE LET h == SetDatetime(Heap(df), copy, date_col)
            IN /\ df' = h["caller"]
               /\ \E d \in LinePlotSorted(h[copy], date_col) :
                     LET r == LinePlotDraw(d, date_col, value_col, xlabel, ylabel)
                     IN outcome' = r.outcome /\ fig' = r.fig
    /\ UNCHANGED dbVars

\* legend_labels = list(y_col_labels) if y_col_labels is not None else list(y_cols)
LegendLabels(y_cols, y_col_labels) ==
    IF y_col_labels.given THEN y_col_labels.v ELSE y_cols

\* the label count never checked
LabelCountUnchecked(legend_labels, n) == FALSE

\* if len(legend_labels) != n
LabelCountMismatch(legend_labels, n) == Len(legend_labels) # n

\* len(zip(y_cols, legend_labels)): zip stops at the shorter sequence
ZipLen(y_cols, legend_labels) ==
    IF Len(y_cols) <= Len(legend_labels) THEN Len(y_cols) ELSE Len(legend_labels)

\* the bars the loop over zip(y_cols, legend_labels) has drawn after k rounds
GroupedSeries(d, y_cols, legend_labels, k) ==
    [i \in 1..k |-> [label |-> legend_labels[i], vals |-> Column(d, y_cols[i])]]

\* the first of the k rounds of the loop whose column is missing, 0 if none is
FirstMissing(d, y_cols, k) ==
    IF \A i \in 1..k : HasColumn(d, y_cols[i]) THEN 0
    ELSE CHOOSE i \in 1..k :
            /\ ~HasColumn(d, y_cols[i])
            /\ \A j \in 1..(i - 1) : HasColumn(d, y_cols[j])

GroupedBarDraw(d, x, y_cols, xlabel, ylabel, y_col_labels) ==
    IF ~HasColumn(d, x) THEN [outcome |-> "KeyError", fig |-> NoFig]
    ELSE
    LET labels == [i \in 1..Len(d.rows) |-> astype_str(d.rows[i][x])]
        n == Len(y_cols)
        legend_labels == LegendLabels(y_cols, y_col_labels)
        k == ZipLen(y_cols, legend_labels)
        miss == FirstMissing(d, y_cols, k)
    IN IF LabelCountMismatch(legend_labels, n)
       THEN [outcome |-> "ValueError", fig |-> NoFig]
       ELSE IF miss # 0
       THEN [outcome |-> "KeyError",
             fig |-> [Started EXCEPT
                        !.steps = <<"figure">> \o [i \in 1..(miss - 1) |-> "bar"],
                        !.series = GroupedSeries(d, y_cols, legend_labels, miss - 1)]]
       ELSE [outcome |-> "ok",
             fig |-> [steps |-> <<"figure">> \o [i \in 1..k |-> "bar"] \o <<"show">>,
                      cats |-> labels,
                      vals |-> <<>>,
                      series |-> GroupedSeries(d, y_cols, legend_labels, k),
                      inverted |-> FALSE,
                      xlabel |-> Or(xlabel, x),
                      ylabel |-> Default(ylabel, "")]]

grouped_bar_wide(x, y_cols, xlabel, ylabel, y_col_labels) ==
    /\ Idle
    /\ call' = [fn |-> "grouped_bar_wide", x |-> x, y_cols |-> y_cols,
                xlabel |-> xlabel, ylabel |-> ylabel, y_col_labels |-> y_col_labels]
    /\ LET h == Heap(df)
           r == GroupedBarDraw(h[copy], x, y_cols, xlabel, ylabel, y_col_labels)
       IN /\ df' = h["caller"]
          /\ outcome' = r.outcome
          /\ fig' = r.fig
    /\ shown' = shown
    /\ UNCHANGED dbVars

\* a missing column plotted as no points instead of looked up
ScatterDrawBlank(d, x, y, xlabel, ylabel) ==
    [outcome |-> "ok",
     fig |-> [steps |-> <<"figure", "scatter", "show">>,
              cats |-> IF HasColumn(d, x) THEN Column(d, x) ELSE <<>>,
              vals |-> IF HasColumn(d, y) THEN Column(d, y) ELSE <<>>,
              series |-> <<>>,
              inverted |-> FALSE,
              xlabel |-> Or(xlabel, x),
              ylabel |-> Or(ylabel, y)]]

ScatterDraw(d, x, y, xlabel, ylabel) ==
    IF ~HasColumn(d, x) \/ ~HasColumn(d, y)
    THEN [outcome |-> "KeyError", fig |-> Started]
    ELSE [outcome |-> "ok",
          fig |-> [steps |-> <<"figure", "scatter", "show">>,
                   cats |-> Column(d, x),
                   vals |-> Column(d, y),
                   series |-> <<>>,
                   inverted |-> FALSE,
                   xlabel |-> Or(xlabel, x),
                   ylabel |-> Or(ylabel, y)]]

scatter_plot(x, y, xlabel, ylabel) ==
    /\ Idle
    /\ call' = [fn |-> "scatter_plot", x |-> x, y |-> y, xlabel |-> xlabel,
                ylabel |-> ylabel]
    /\ LET r == ScatterDraw(df, x, y, xlabel, ylabel)
       IN outcome' = r.outcome /\ fig' = r.fig
    /\ UNCHANGED <<df, shown>>
    /\ UNCHANGED dbVars

\* "upward" if end_val >= start_val else "downward"
Direction(start_val, end_val) == IF end_val >= start_val THEN "upward" ELSE "downward"

\* the Markdown text of insight_monthly_trend, by its fields
Summary(d, date_col, value_col) ==
    LET peak == loc(d, idxmax(d, value_col))
        low == loc(d, idxmin(d, value_col))
        start_month == _fmt_month(d.rows[1][date_col])
        end_month == _fmt_month(d.rows[Len(d.rows)][date_col])
        start_val == float(d.rows[1][value_col])
        end_val == float(d.rows[Len(d.rows)][value_col])
    IN [kind |-> "insight",
        direction |-> Direction(start_val, end_val),
        start_month |-> start_month, start_val |-> start_val,
        end_month |-> end_month, end_val |-> end_val,
        peak_month |-> _fmt_month(peak[date_col]), peak_val |-> float(peak[value_col]),
        low_month |-> _fmt_month(low[date_col]), low_val |-> float(low[value_col])]

insight_monthly_trend(date_col, value_col) ==
    /\ Idle
    /\ call' = [fn |-> "insight_monthly_trend", date_col |-> date_col,
                value_col |-> value_col]
    /\ fig' = fig
    /\ IF ~HasColumn(Heap(df)[copy], date_col)
       THEN outcome' = "KeyError" /\ shown' = shown /\ df' = Heap(df)["caller"]
       ELSE LET h == SetDatetime(Heap(df), copy, date_col)
                d == h[copy]
            IN /\ df' = h["caller"]
               /\ IF ~HasColumn(d, value_col)
                  THEN outcome' = "KeyError" /\ shown' = shown
                  ELSE IF Len(d.rows) = 0
                  THEN outcome' = "ValueError" /\ shown' = shown
                  ELSE outcome' = "ok" /\ shown' = Summary(d, date_col, value_col)
    /\ UNCHANGED dbVars

----------------------------------------------------------------------------
(* db.py *)

EnvNames == {"SQL_SERVER", "SQL_DATABASE"}

EnvValues == [SQL_SERVER |-> {"sqlhost", "sqlhost\\DEV"},
              SQL_DATABASE |-> {"TestDB", "StagingDB"}]

EnvMaps == {e \in [EnvNames -> {None} \cup EnvValues["SQL_SERVER"] \cup EnvValues["SQL_DATABASE"]] :
               \A v \in EnvNames : e[v] = None \/ e[v] \in EnvValues[v]}

\* load_dotenv(override=True): the .env file wins over os.environ
load_dotenv_override(env, file) ==
    [v \in EnvNames |-> IF file[v] = None THEN env[v] ELSE file[v]]

\* load_dotenv(): a variable of the .env file is put into os.environ unless
\* os.environ already holds it (override=False)
load_dotenv(env, file) ==
    [v \in EnvNames |-> IF env[v] = None THEN file[v] ELSE env[v]]

DefaultServer == "localhost\\SQL2025"
DefaultDatabase == "AdventureWorks2025"

\* os.getenv(name, default)
getenv(env, name, default) == IF env[name] = None THEN default ELSE env[name]

\* the ODBC connection string, as the sequence of its pieces
odbc_str(server, database) ==
    <<"DRIVER={ODBC Driver 18 for SQL Server};",
      "SERVER=", server, ";",
      "DATABASE=", database, ";",
      "Trusted_Connection=yes;",
      "TrustServerCertificate=yes;">>

\* urllib.parse.quote_plus, piece by piece
quote_plus(str) == [i \in 1..Len(str) |-> [quoted |-> str[i]]]

\* the odbc_connect query argument as the driver receives it
unquote_plus(q) == [i \in 1..Len(q) |-> q[i].quoted]

\* make_engine(): the environment after load_dotenv and the engine returned,
\* id being the identity of the new engine object
make_engine(env, file, id) ==
    LET env1 == load_dotenv(env, file)
        server == getenv(env1, "SQL_SERVER", DefaultServer)
        database == getenv(env1, "SQL_DATABASE", DefaultDatabase)
    IN [environ |-> env1,
        engine |-> [kind |-> "engine", id |-> id,
                    url |-> [prefix |-> "mssql+pyodbc:///?odbc_connect=",
                             odbc_connect |-> quote_plus(odbc_str(server, database))]]]

\* ENGINE = make_engine(), run once when db.py is imported
ImportDb ==
    /\ ENGINE = NoEngine
    /\ LET r == make_engine(environ, dotenv, Len(created) + 1)
       IN /\ environ' = r.environ
          /\ ENGINE' = r.engine
          /\ created' = Append(created, r.engine)
    /\ loadEnv' = environ
    /\ UNCHANGED <<dotenv, used>>
    /\ UNCHANGED plotVars

\* an engine built anew on every call
ReadSqlFreshEngine(engine, made) ==
    LET r == make_engine(environ, dotenv, Len(made) + 1)
    IN [engine |-> r.engine, created |-> Append(made, r.engine)]

\* the engine a read_sql call hands to pd.read_sql, and the engines existing
\* after the call
ReadSqlEngine(engine, made) == [engine |-> engine, created |-> made]

read_sql ==
    /\ ENGINE # NoEngine
    /\ Len(used) < MaxReads
    /\ LET r == ReadSqlEngine(ENGINE, created)
       IN /\ used' = Append(used, r.engine)
          /\ created' = r.created
    /\ UNCHANGED <<environ, dotenv, ENGINE, loadEnv>>
    /\ UNCHANGED plotVars

\* the process or the notebook sets or deletes an environment variable
SetEnv(name, value) ==
    /\ environ[name] # value
    /\ environ' = [environ EXCEPT ![name] = value]
    /\ UNCHANGED <<dotenv, ENGINE, created, used, loadEnv>>
    /\ UNCHANGED plotVars

----------------------------------------------------------------------------
(* Chart library: one call on one table *)

PlotIdle ==
    /\ df = [cols |-> Columns, rows |-> <<>>]
    /\ call = NoCall
    /\ outcome = "none"
    /\ fig = NoFig
    /\ shown = NoSummary

DbIdle ==
    /\ environ = [v \in EnvNames |-> None]
    /\ dotenv = [v \in EnvNames |-> None]
    /\ ENGINE = NoEngine
    /\ created = <<>>
    /\ used = <<>>
    /\ loadEnv = [v \in EnvNames |-> None]

Init ==
    /\ df \in Tables
    /\ call = NoCall
    /\ outcome = "none"
    /\ fig = NoFig
    /\ shown = NoSummary
    /\ DbIdle

Next ==
    \/ \E x \in CategoryNames, y \in NumberNames, xl \in LabelArgs, yl \in LabelArgs,
          s \in SortNames, a \in BOOLEAN : bar_vertical(x, y, xl, yl, s, a)
    \/ \E x \in NumberNames, y \in CategoryNames, xl \in LabelArgs, yl \in LabelArgs,
          s \in BOOLEAN : bar_horizontal(x, y, xl, yl, s)
    \/ \E dc \in CategoryNames, vc \in NumberNames, xl \in LabelArgs, yl \in LabelArgs :
          line_plot_monthly(dc, vc, xl, yl)
    \/ \E x \in CategoryNames, yc \in YColsArgs, xl \in LabelArgs, yl \in LabelArgs,
          ycl \in YColLabelsArgs : grouped_bar_wide(x, yc, xl, yl, ycl)
    \/ \E x \in NumberNames, y \in NumberNames, xl \in LabelArgs, yl \in LabelArgs :
          scatter_plot(x, y, xl, yl)
    \/ \E dc \in CategoryNames, vc \in NumberNames : insight_monthly_trend(dc, vc)

Spec == Init /\ [][Next]_vars

----------------------------------------------------------------------------
(* Connection provider: the environment, the import of db.py, the queries *)

DbInit ==
    /\ PlotIdle
    /\ environ \in EnvMaps
    /\ dotenv \in EnvMaps
    /\ ENGINE = NoEngine
    /\ created = <<>>
    /\ used = <<>>
    /\ loadEnv = [v \in EnvNames |-> None]

DbNext ==
    \/ ImportDb
    \/ read_sql
    \/ \E name \in EnvNames : \E value \in {None} \cup EnvValues[name] : SetEnv(name, value)

DbSpec == DbInit /\ [][DbNext]_vars

----------------------------------------------------------------------------
(* Properties of the chart library, checked under Spec *)

Shown == \E i \in 1..Len(fig.steps) : fig.steps[i] = "show"

\* the rows a bar chart drew, rebuilt from the category and value sequences
DrawnRows == [i \in 1..Len(fig.cats) |->
                 [c \in Columns |-> IF c = "MonthStart" THEN fig.cats[i] ELSE fig.vals[i]]]

Count(seq, e) == Cardinality({i \in 1..Len(seq) : seq[i] = e})

SameElements(s1, s2) ==
    /\ Len(s1) = Len(s2)
    /\ \A i \in 1..Len(s1) : Count(s1, s1[i]) = Count(s2, s1[i])

NonDecreasing(keys) == \A i \in 1..(Len(keys) - 1) : keys[i] <= keys[i + 1]
NonIncreasing(keys) == \A i \in 1..(Len(keys) - 1) : keys[i] >= keys[i + 1]

Keys(rows, c) == [i \in 1..Len(rows) |-> SortKey(rows[i][c])]

LabelsMismatched ==
    /\ call.fn = "grouped_bar_wide"
    /\ call.y_col_labels.given
    /\ Len(call.y_col_labels.v) # Len(call.y_cols)

\* C1 as stated: every grouped_bar_wide call whose y_col_labels is given with a
\* length other than that of y_cols raises ValueError before any rendering step.
C1_AlwaysValueError ==
    LabelsMismatched => (outcome = "ValueError" /\ fig.steps = <<>>)

\* C1 amended: such a call raises before any rendering step; the exception is
\* ValueError when column x exists in the table and KeyError when it does not.
C1_ValueErrorWhenXExists ==
    LabelsMismatched =>
        /\ fig.steps = <<>>
        /\ outcome = (IF HasColumn(df, call.x) THEN "ValueError" ELSE "KeyError")

C1_Witness ==
    /\ LabelsMismatched
    /\ HasColumn(df, call.x)
    /\ outcome = "ValueError"
    /\ Len(df.rows) > 0

\* C2: bar_vertical with a valid sort_by draws the rows of the table ordered by
\* that column in the direction of ascending; bar_horizontal with sort_desc=True
\* draws the rows in descending order of value from the top of the inverted
\* axis down, the largest value first.
C2_SortedOrder ==
    /\ (call.fn = "bar_vertical" /\ outcome = "ok" /\ call.sort_by \in Columns) =>
          /\ SameElements(DrawnRows, df.rows)
          /\ IF call.ascending THEN NonDecreasing(Keys(DrawnRows, call.sort_by))
                               ELSE NonIncreasing(Keys(DrawnRows, call.sort_by))
    /\ (call.fn = "bar_horizontal" /\ outcome = "ok" /\ call.sort_desc) =>
          /\ SameElements(DrawnRows, df.rows)
          /\ fig.inverted
          /\ NonIncreasing(Keys(DrawnRows, call.x))
          /\ \A i \in 1..Len(df.rows) :
                SortKey(df.rows[i][call.x]) <= SortKey(fig.vals[1])

C2_Witness ==
    /\ call.fn = "bar_horizontal" /\ outcome = "ok" /\ call.sort_desc
    /\ Len(df.rows) = MaxRows
    /\ ~NonIncreasing(Keys(df.rows, call.x))
    /\ DrawnRows # df.rows

C2_WitnessVertical ==
    /\ call.fn = "bar_vertical" /\ outcome = "ok" /\ call.sort_by = "TotalSales"
    /\ call.ascending
    /\ ~NonDecreasing(Keys(df.rows, "TotalSales"))

\* C3: line_plot_monthly plots its points in non-decreasing date order whatever
\* the order of the rows, each value paired with the date of its own row.
C3_DateOrder ==
    (call.fn = "line_plot_monthly" /\ outcome = "ok") =>
        /\ NonDecreasing([i \in 1..Len(fig.cats) |-> SortKey(fig.cats[i])])
        /\ SameElements([i \in 1..Len(fig.cats) |-> <<fig.cats[i], fig.vals[i]>>],
                        [i \in 1..Len(df.rows) |->
                            <<to_datetime(df.rows[i][call.date_col]),
                              df.rows[i][call.value_col]>>])

C3_Witness ==
    /\ call.fn = "line_plot_monthly" /\ outcome = "ok"
    /\ Len(df.rows) = MaxRows
    /\ ~NonDecreasing(Keys(df.rows, call.date_col))

Earliest(rows, c) == {i \in 1..Len(rows) : \A j \in 1..Len(rows) :
                         SortKey(rows[i][c]) <= SortKey(rows[j][c])}
Latest(rows, c) == {i \in 1..Len(rows) : \A j \in 1..Len(rows) :
                       SortKey(rows[i][c]) >= SortKey(rows[j][c])}

InsightDone == call.fn = "insight_monthly_trend" /\ outcome = "ok"

\* C4: the summary's start and end are the earliest and the latest month of the
\* table with the values of those months, and the direction is "upward" exactly
\* when the latest month's value is at least the earliest month's.
C4_EarliestToLatest ==
    InsightDone =>
        /\ \E i \in Earliest(df.rows, call.date_col) :
              /\ shown.start_month = _fmt_month(df.rows[i][call.date_col])
              /\ shown.start_val = float(df.rows[i][call.value_col])
        /\ \E j \in Latest(df.rows, call.date_col) :
              /\ shown.end_month = _fmt_month(df.rows[j][call.date_col])
              /\ shown.end_val = float(df.rows[j][call.value_col])
        /\ (shown.direction = "upward") = (shown.end_val >= shown.start_val)
        /\ shown.direction \in {"upward", "downward"}

\* C5: the month reported as highest is the month of a row holding the maximum
\* of the value column and the value reported with it is that maximum; the same
\* for the lowest month and the minimum.
C5_PeakAndLow ==
    InsightDone =>
        /\ \E i \in Latest(df.rows, call.value_col) :
              /\ shown.peak_month = _fmt_month(df.rows[i][call.date_col])
              /\ shown.peak_val = float(df.rows[i][call.value_col])
        /\ \E i \in Earliest(df.rows, call.value_col) :
              /\ shown.low_month = _fmt_month(df.rows[i][call.date_col])
              /\ shown.low_val = float(df.rows[i][call.value_col])

C5_Witness ==
    /\ InsightDone
    /\ Len(df.rows) = MaxRows
    /\ shown.peak_val > shown.low_val
    /\ shown.peak_val # shown.end_val
    /\ shown.low_val # shown.start_val

ChartFunctions == {"bar_vertical", "bar_horizontal", "line_plot_monthly",
                   "grouped_bar_wide", "scatter_plot"}

\* the column names a chart call asks the table for
Requested ==
    CASE call.fn = "bar_vertical" ->
             {call.x, call.y} \cup (IF call.sort_by = None THEN {} ELSE {call.sort_by})
      [] call.fn = "bar_horizontal" -> {call.x, call.y}
      [] call.fn = "line_plot_monthly" -> {call.date_col, call.value_col}
      [] call.fn = "grouped_bar_wide" ->
             {call.x} \cup {call.y_cols[i] : i \in 1..Len(call.y_cols)}
      [] call.fn = "scatter_plot" -> {call.x, call.y}

ColumnMissing == call.fn \in ChartFunctions /\ \E c \in Requested : ~HasColumn(df, c)

\* C6 as stated: a chart call that asks for a column the table lacks ends in a
\* key error and shows no figure.
C6_AlwaysKeyError ==
    ColumnMissing => (outcome = "KeyError" /\ ~Shown)

\* C6 amended: such a call ends in an exception and shows no figure; the
\* exception is the key error, except that grouped_bar_wide, when column x exists
\* and y_col_labels is given with the wrong length, raises ValueError first.
C6_ErrorNoFigure ==
    ColumnMissing =>
        /\ ~Shown
        /\ outcome = (IF LabelsMismatched /\ HasColumn(df, call.x)
                      THEN "ValueError" ELSE "KeyError")

C6_Witness ==
    /\ ColumnMissing
    /\ call.fn = "scatter_plot"
    /\ outcome = "KeyError"
    /\ Len(df.rows) > 0

C6_WitnessGrouped ==
    /\ ColumnMissing
    /\ call.fn = "grouped_bar_wide"
    /\ outcome = "KeyError"
    /\ Len(fig.series) = 1

\* C7: no call changes the caller's table: rows, their order, the columns and
\* every cell with its type are after the call what they were before it.
C7_TableUnchanged == [][df' = df]_vars

C7_Witness ==
    /\ call.fn = "line_plot_monthly" /\ outcome = "ok"
    /\ Len(df.rows) = MaxRows
    /\ fig.cats # Column(df, call.date_col)
    /\ \A i \in 1..Len(df.rows) : df.rows[i][call.date_col].kind = "text"
    /\ \A i \in 1..Len(fig.cats) : fig.cats[i].kind = "ts"

\* the column each axis of a chart shows, "" where the axis shows no single one
AxisColumns ==
    CASE call.fn = "bar_vertical" -> [x |-> call.x, y |-> call.y]
      [] call.fn = "bar_horizontal" -> [x |-> call.x, y |-> call.y]
      [] call.fn = "scatter_plot" -> [x |-> call.x, y |-> call.y]
      [] call.fn = "line_plot_monthly" -> [x |-> call.date_col, y |-> call.value_col]
      [] call.fn = "grouped_bar_wide" -> [x |-> call.x, y |-> ""]

ChartDone == call.fn \in ChartFunctions /\ outcome = "ok"

\* C10 as stated: in every chart function an axis label the caller leaves out
\* is the name of the column plotted on that axis.
C10_AllDefaultToColumn ==
    ChartDone =>
        /\ (call.xlabel = None => fig.xlabel = AxisColumns.x)
        /\ (call.ylabel = None =>
               (call.fn # "grouped_bar_wide" => fig.ylabel = AxisColumns.y))

\* C10 amended: a label left out is the name of the column on that axis in
\* bar_vertical, bar_horizontal and scatter_plot and for the x axis of
\* grouped_bar_wide; line_plot_monthly falls back to "Month" and "Value", and
\* the y label of grouped_bar_wide to the empty string.
C10_DefaultLabels ==
    ChartDone =>
        /\ (call.xlabel = None =>
               fig.xlabel = (IF call.fn = "line_plot_monthly" THEN "Month"
                             ELSE AxisColumns.x))
        /\ (call.ylabel = None =>
               fig.ylabel = (CASE call.fn = "line_plot_monthly" -> "Value"
                               [] call.fn = "grouped_bar_wide" -> ""
                               [] OTHER -> AxisColumns.y))
        /\ (call.xlabel # None => fig.xlabel = call.xlabel)
        /\ (call.ylabel # None => fig.ylabel = call.ylabel)

C10_Witness ==
    /\ ChartDone
    /\ call.fn = "bar_horizontal"
    /\ call.xlabel = None /\ call.ylabel = "Custom"
    /\ fig.xlabel = "TotalSales"
    /\ Len(df.rows) > 0

----------------------------------------------------------------------------
(* Properties of the connection provider, checked under DbSpec *)

\* the ODBC string the driver is handed for an engine
ConnectionString(engine) == unquote_plus(engine.url.odbc_connect)

\* the string holds key immediately followed by value
Contains(str, key, value) ==
    \E i \in 1..(Len(str) - 1) : str[i] = key /\ str[i + 1] = value

HasPiece(str, piece) == \E i \in 1..Len(str) : str[i] = piece

DefaultOf(name) == IF name = "SQL_SERVER" THEN DefaultServer ELSE DefaultDatabase
KeyOf(name) == IF name = "SQL_SERVER" THEN "SERVER=" ELSE "DATABASE="

\* what a setting was when db.py was imported: the environment first, then the
\* .env file, then the default
AtLoad(name) ==
    IF loadEnv[name] # None THEN loadEnv[name]
    ELSE IF dotenv[name] # None THEN dotenv[name]
    ELSE DefaultOf(name)

\* C8: one engine is created, at import, and every read_sql call uses it: after
\* any changes of the environment the server and the database a query runs
\* against are those read at import, and no read_sql call creates an engine.
C8_OneEngine ==
    /\ Len(created) <= 1
    /\ (ENGINE = NoEngine => created = <<>> /\ used = <<>>)
    /\ (ENGINE # NoEngine => created = <<ENGINE>>)
    /\ \A i \in 1..Len(used) :
          /\ used[i] = created[1]
          /\ \A name \in EnvNames :
                Contains(ConnectionString(used[i]), KeyOf(name), AtLoad(name))

C8_Witness ==
    /\ Len(used) = MaxReads
    /\ loadEnv["SQL_DATABASE"] = "TestDB"
    /\ environ["SQL_DATABASE"] = "StagingDB"
    /\ environ["SQL_SERVER"] # load_dotenv(loadEnv, dotenv)["SQL_SERVER"]

Trusted(str) ==
    /\ HasPiece(str, "Trusted_Connection=yes;")
    /\ HasPiece(str, "TrustServerCertificate=yes;")

\* C9 as stated: a variable set in the environment before the engine is made
\* appears in the connection string, a variable that is unset leaves the default
\* there, and the string always asks for integrated authentication and a trusted
\* server certificate.
C9_UnsetMeansDefault ==
    ENGINE # NoEngine =>
        /\ \A name \in EnvNames :
              Contains(ConnectionString(ENGINE), KeyOf(name),
                       IF loadEnv[name] # None THEN loadEnv[name] ELSE DefaultOf(name))
        /\ Trusted(ConnectionString(ENGINE))

\* C9 amended: a variable set in the environment appears in the connection
\* string; an unset variable that the .env file defines appears with the .env
\* value; only a variable set in neither leaves the default; the string always
\* asks for integrated authentication and a trusted server certificate.
C9_EnvThenDotenvThenDefault ==
    ENGINE # NoEngine =>
        /\ \A name \in EnvNames :
              /\ loadEnv[name] # None =>
                    Contains(ConnectionString(ENGINE), KeyOf(name), loadEnv[name])
              /\ (loadEnv[name] = None /\ dotenv[name] # None) =>
                    Contains(ConnectionString(ENGINE), KeyOf(name), dotenv[name])
              /\ (loadEnv[name] = None /\ dotenv[name] = None) =>
                    Contains(ConnectionString(ENGINE), KeyOf(name), DefaultOf(name))
        /\ Trusted(ConnectionString(ENGINE))

C9_Witness ==
    /\ ENGINE # NoEngine
    /\ loadEnv["SQL_DATABASE"] = "TestDB"
    /\ dotenv["SQL_DATABASE"] = "StagingDB"
    /\ loadEnv["SQL_SERVER"] = None /\ dotenv["SQL_SERVER"] = None
    /\ Contains(ConnectionString(ENGINE), "DATABASE=", "TestDB")
    /\ Contains(ConnectionString(ENGINE), "SERVER=", DefaultServer)

====
